---------------------------- MODULE Spec2Model ----------------------------
(***************************************************************************)
(* Model of the LearnFinity personalization demo pipeline                  *)
(* (personalization_data/demo/python_code.py).                             *)
(*                                                                         *)
(* Part 1: the skill-gap analysis, analyze_skills_gap, and the learning-   *)
(* priority ranking, identify_learning_priorities.  Both are pure          *)
(* functions; they are modelled as operators that compute what the Python  *)
(* loops compute, in the same order, and are applied by one action each.   *)
(*   Spec      one call of analyze_skills_gap on an inventory and a        *)
(*             position's requirements drawn from bounded sets;            *)
(*   SpecRank  one call of identify_learning_priorities on a list of skill *)
(*             gaps drawn from bounded sets.                               *)
(*   SpecCalls two concurrent calls of analyze_skills_gap, step by step.   *)
(*                                                                         *)
(* Part 2: the content pipeline around the generator.                      *)
(*   SpecBatch    the module batch of main (ThreadPoolExecutor of 5        *)
(*                workers, as_completed loop, summary);                    *)
(*   SpecOutline  generate_course_outline's extraction of the outline from *)
(*                the generator's response, and main's saving of it.       *)
(***************************************************************************)
EXTENDS Integers, Sequences, FiniteSets, TLC

VARIABLES
    employee_data,          \* argument of analyze_skills_gap: [skills |-> categories]
    position_requirements,  \* argument of analyze_skills_gap: [required_skills |-> categories]
    report,                 \* the dict analyze_skills_gap returns
    pc,                     \* "call" before analyze_skills_gap has run, "return" after,
                            \* "raise" if it ended with an exception
    skill_gaps,             \* argument of identify_learning_priorities
    after_pass1,            \* local `priorities` when the High loop has ended (line 85)
    after_pass2,            \* local `priorities` when the Medium block has ended (line 91)
    priorities,             \* the list identify_learning_priorities returns
    rpc,                    \* "call" before identify_learning_priorities has run, "return" after
    callers,                \* concurrent calls of analyze_skills_gap: where each one is
                            \* (at), the index of its next required category (i) and
                            \* what it returned (result)
    frames,                 \* the locals employee_skills, skill_gaps and
                            \* transferable_skills of each call
    overlapped,             \* TRUE once a call began while another was in progress
    modules_to_generate,    \* the module numbers the batch was asked for, in order
    futures,                \* per requested module, the state of its future: "new"
                            \* (not submitted), "queued", "running", or how
                            \* process_module ended: "ok", "none", "raised",
                            \* or "hung" when its call never returns
    yielded,                \* the modules whose future as_completed has yielded
    results,                \* the list `results` of main
    saved,                  \* the modules whose file save_module_content wrote
    bpc,                    \* where main is: "submit", "collect", "summary",
                            \* "done" or "crashed"
    response,               \* the generator's answer to the outline request, as a
                            \* sequence of segments of text
    course_outline,         \* what generate_course_outline returned ("None" or
                            \* the parsed block)
    outline_file,           \* the content of course_outline.json, "absent" if
                            \* it was not written
    opc,                    \* where the outline stage is: "call", "returned", "done"
    files,                  \* the artifact store: per file name of DATA_DIR its text,
                            \* "absent" if there is no such file
    writers,                \* per writer, the save_to_json call it is in, if any
    completed,              \* per file name, the text of the save that returned last
    touched,                \* the file names a save has been started on
    loaded,                 \* the last load_from_json call: its file and result
    saves,                  \* number of save_to_json calls started
    artifacts,              \* the artifact store as PersonalizationAgent reads it:
                            \* per file name of DATA_DIR the stored dict
    executed,               \* per artifact kind and employee id, how many times
                            \* task.execute() ran for that artifact
    agent_call,             \* the last call of the agent: what it found stored,
                            \* whether it ran the generator and saved, its outcome
    agent_calls,            \* number of calls of the agent made
    tasks,                  \* the list fetch_pending_tasks returned to main
    task_index,             \* the place in tasks of the task the for loop is at
    ppc,                    \* where the processor is: "poll" (about to fetch),
                            \* "task" (at the head of the for loop), a place in
                            \* process_employee_profile ("begin", "started",
                            \* "processed", "completed", "except"), "sleep"
                            \* (line 241) or "error" (lines 244-245)
    events,                 \* per fetched task, what happened to it in order:
                            \* status writes asked of update_task_status (with
                            \* ok, whether the PATCH went through), processing
                            \* steps, the return of process_employee_profile,
                            \* an exception reaching main
    polls                   \* number of polls made

vars == <<employee_data, position_requirements, report, pc,
          skill_gaps, after_pass1, after_pass2, priorities, rpc,
          callers, frames, overlapped,
          modules_to_generate, futures, yielded, results, saved, bpc,
          response, course_outline, outline_file, opc,
          files, writers, completed, touched, loaded, saves,
          artifacts, executed, agent_call, agent_calls,
          tasks, task_index, ppc, events, polls>>

analysisVars == <<employee_data, position_requirements, report, pc>>
rankVars == <<skill_gaps, after_pass1, after_pass2, priorities, rpc>>
callVars == <<callers, frames, overlapped>>

\* the variables of the other parts of the pipeline, and their idle values
batchVars == <<modules_to_generate, futures, yielded, results, saved, bpc>>
outlineVars == <<response, course_outline, outline_file, opc>>
storeVars == <<files, writers, completed, touched, loaded, saves>>
personalizationVars == <<artifacts, executed, agent_call, agent_calls>>
processorVars == <<tasks, task_index, ppc, events, polls>>
agentVars == <<storeVars, personalizationVars, processorVars>>
laterVars == <<callVars, batchVars, outlineVars, agentVars>>
pipelineVars == <<analysisVars, rankVars, callVars, batchVars, outlineVars>>
besidesStoreVars == <<pipelineVars, personalizationVars, processorVars>>

CallsIdle == callers = <<>> /\ frames = <<>> /\ overlapped = FALSE

BatchIdle ==
    /\ modules_to_generate = <<>>
    /\ futures = <<>>
    /\ yielded = {}
    /\ results = <<>>
    /\ saved = {}
    /\ bpc = "idle"

OutlineIdle ==
    /\ response = <<>>
    /\ course_outline = "None"
    /\ outline_file = "absent"
    /\ opc = "idle"

StoreIdle ==
    /\ files = <<>>
    /\ writers = <<>>
    /\ completed = <<>>
    /\ touched = {}
    /\ loaded = <<>>
    /\ saves = 0

PersonalizationIdle ==
    /\ artifacts = <<>>
    /\ executed = <<>>
    /\ agent_call = <<>>
    /\ agent_calls = 0

ProcessorIdle ==
    /\ tasks = <<>>
    /\ task_index = 0
    /\ ppc = "idle"
    /\ events = <<>>
    /\ polls = 0

AgentsIdle == StoreIdle /\ PersonalizationIdle /\ ProcessorIdle

LaterIdle == CallsIdle /\ BatchIdle /\ OutlineIdle /\ AgentsIdle

(***************************************************************************)
(* Bounds of the model and constants of the program.                       *)
(***************************************************************************)
\* most skill records in the employee's inventory, all categories together
MaxEmpSkills == 2
\* most required skill names in the requirements, all categories together
MaxReqSkills == 2
\* most gap categories in a list handed to identify_learning_priorities
MaxGapCategories == 4
\* most gap skills in one gap category
MaxGapSkills == 4

\* emp_skill["proficiency"] >= 3: a matched skill counts as transferable
TransferableProficiency == 3
\* emp_skill["proficiency"] >= 4: listed as transferable even if not required
StrongProficiency == 4
\* gap["skills"][:3]: top 3 per High category
TopPerHighCategory == 3
\* len(priorities) < 5 and priorities[:5]
TopPriorities == 5

\* the skill names of the employee's inventory
EmpNames == {"Excel", "sql"}
\* the skill names a position requires: "SQL" and "sql" are equal up to case
ReqNames == {"Excel", "SQL"}
\* proficiency ratings around the two thresholds
Proficiencies == {2, 3, 4}
\* the employee's category names, by position in employee_data["skills"]
EmpCategoryNames == <<"Tools", "Finance">>
\* the required categories' names, by position in required_skills
ReqCategoryNames == <<"Spreadsheets", "Databases">>
\* a required category's "priority" key: one of these, or no key at all
PriorityValues == {"High", "Medium", "Low"}

(***************************************************************************)
(* Helpers on sequences.                                                   *)
(***************************************************************************)
Range(s) == {s[i] : i \in 1..Len(s)}

\* Python's s[:n] for n >= 0
Take(s, n) == SubSeq(s, 1, IF n < Len(s) THEN n ELSE Len(s))

\* str.lower() on the names of the model
lower(s) ==
    CASE s = "Excel" -> "excel"
      [] s = "SQL" -> "sql"
      [] OTHER -> s

(***************************************************************************)
(* analyze_skills_gap, lines 25-74.                                        *)
(***************************************************************************)
\* lines 30-35: the records one employee category contributes
CategorySkills(category) ==
    [i \in 1..Len(category.skills) |->
        [name |-> category.skills[i].name,
         proficiency |-> category.skills[i].proficiency,
         category |-> category.category]]

\* lines 28-35: the flattened list employee_skills, category-then-skill order
RECURSIVE ExtractEmployeeSkills(_)
ExtractEmployeeSkills(categories) ==
    IF categories = <<>> THEN <<>>
    ELSE CategorySkills(Head(categories)) \o ExtractEmployeeSkills(Tail(categories))

\* FirstMatch choosing the matching record of highest proficiency
FirstMatch_Highest(employee_skills, skill) ==
    LET hits == {i \in 1..Len(employee_skills) :
                    lower(employee_skills[i].name) = lower(skill)}
    IN IF hits = {} THEN 0
       ELSE CHOOSE i \in hits :
               \A j \in hits :
                   \/ employee_skills[i].proficiency > employee_skills[j].proficiency
                   \/ /\ employee_skills[i].proficiency = employee_skills[j].proficiency
                      /\ i <= j

\* lines 46-53: index of the record the inner loop breaks on, 0 if it ends
\* without a break
FirstMatch(employee_skills, skill) ==
    LET hits == {i \in 1..Len(employee_skills) :
                    lower(employee_skills[i].name) = lower(skill)}
    IN IF hits = {} THEN 0
       ELSE CHOOSE i \in hits : \A j \in hits : i <= j

\* MatchSkill with the comparison > 3 in place of >= 3
MatchSkill_StrictThreshold(employee_skills, skill, acc) ==
    LET m == FirstMatch(employee_skills, skill) IN
    IF m = 0
    THEN [acc EXCEPT !.category_gaps = Append(@, skill)]
    ELSE IF employee_skills[m].proficiency > TransferableProficiency
         THEN [acc EXCEPT !.transferable_skills = Append(@, employee_skills[m].name)]
         ELSE [acc EXCEPT !.category_gaps = Append(@, skill)]

\* MatchSkill without the `if not found` block of lines 55-56
MatchSkill_DropsUnmatched(employee_skills, skill, acc) ==
    LET m == FirstMatch(employee_skills, skill) IN
    IF m = 0
    THEN acc
    ELSE IF employee_skills[m].proficiency >= TransferableProficiency
         THEN [acc EXCEPT !.transferable_skills = Append(@, employee_skills[m].name)]
         ELSE [acc EXCEPT !.category_gaps = Append(@, skill)]

\* MatchSkill putting a gap at the front of category_gaps
MatchSkill_PrependsGap(employee_skills, skill, acc) ==
    LET m == FirstMatch(employee_skills, skill) IN
    IF m = 0
    THEN [acc EXCEPT !.category_gaps = <<skill>> \o @]
    ELSE IF employee_skills[m].proficiency >= TransferableProficiency
         THEN [acc EXCEPT !.transferable_skills = Append(@, employee_skills[m].name)]
         ELSE [acc EXCEPT !.category_gaps = <<skill>> \o @]

\* MatchSkill recording the required spelling of a transferable skill
MatchSkill_RequiredSpelling(employee_skills, skill, acc) ==
    LET m == FirstMatch(employee_skills, skill) IN
    IF m = 0
    THEN [acc EXCEPT !.category_gaps = Append(@, skill)]
    ELSE IF employee_skills[m].proficiency >= TransferableProficiency
         THEN [acc EXCEPT !.transferable_skills = Append(@, skill)]
         ELSE [acc EXCEPT !.category_gaps = Append(@, skill)]

\* lines 44-56: one required skill; acc = [transferable_skills, category_gaps]
MatchSkill(employee_skills, skill, acc) ==
    LET m == FirstMatch(employee_skills, skill) IN
    IF m = 0
    THEN [acc EXCEPT !.category_gaps = Append(@, skill)]
    ELSE IF employee_skills[m].proficiency >= TransferableProficiency
         THEN [acc EXCEPT !.transferable_skills = Append(@, employee_skills[m].name)]
         ELSE [acc EXCEPT !.category_gaps = Append(@, skill)]

\* lines 43-56: the required skills of one category, in input order
RECURSIVE MatchSkills(_, _, _)
MatchSkills(employee_skills, skills, acc) ==
    IF skills = <<>> THEN acc
    ELSE MatchSkills(employee_skills, Tail(skills),
                     MatchSkill(employee_skills, Head(skills), acc))

\* GetPriority with the default "High" in place of "Medium"
GetPriority_DefaultHigh(req_category) ==
    IF "priority" \in DOMAIN req_category THEN req_category.priority ELSE "High"

\* line 62: req_category.get("priority", "Medium")
GetPriority(req_category) ==
    IF "priority" \in DOMAIN req_category THEN req_category.priority ELSE "Medium"

\* AppendGaps without the `if category_gaps` test of line 58
AppendGaps_Always(gaps, req_category, category_gaps) ==
    Append(gaps, [category |-> req_category.category,
                  skills |-> category_gaps,
                  priority |-> GetPriority(req_category)])

\* lines 58-63: the entry appended for a category, if any
AppendGaps(gaps, req_category, category_gaps) ==
    IF category_gaps # <<>>
    THEN Append(gaps, [category |-> req_category.category,
                       skills |-> category_gaps,
                       priority |-> GetPriority(req_category)])
    ELSE gaps

\* lines 41-63: one required category; st = [transferable_skills, skill_gaps]
ProcessCategory(employee_skills, req_category, st) ==
    LET r == MatchSkills(employee_skills, req_category.skills,
                         [transferable_skills |-> st.transferable_skills,
                          category_gaps |-> <<>>])
    IN [transferable_skills |-> r.transferable_skills,
        skill_gaps |-> AppendGaps(st.skill_gaps, req_category, r.category_gaps)]

\* lines 38-63: all required categories, in input order
RECURSIVE ProcessCategories(_, _, _)
ProcessCategories(employee_skills, required, st) ==
    IF required = <<>> THEN st
    ELSE ProcessCategories(employee_skills, Tail(required),
                           ProcessCategory(employee_skills, Head(required), st))

\* AddStrongSkill without the proficiency test of line 67
AddStrongSkill_AnyProficiency(transferable_skills, emp_skill) ==
    IF emp_skill.name \notin Range(transferable_skills)
    THEN Append(transferable_skills, emp_skill.name)
    ELSE transferable_skills

\* AddStrongSkill with the comparison > 4 in place of >= 4
AddStrongSkill_Above(transferable_skills, emp_skill) ==
    IF emp_skill.proficiency > StrongProficiency
       /\ emp_skill.name \notin Range(transferable_skills)
    THEN Append(transferable_skills, emp_skill.name)
    ELSE transferable_skills

\* line 67: one employee skill of the second pass
AddStrongSkill(transferable_skills, emp_skill) ==
    IF emp_skill.proficiency >= StrongProficiency
       /\ emp_skill.name \notin Range(transferable_skills)
    THEN Append(transferable_skills, emp_skill.name)
    ELSE transferable_skills

\* lines 66-68: the second pass over employee_skills
RECURSIVE AddStrongSkills(_, _)
AddStrongSkills(transferable_skills, employee_skills) ==
    IF employee_skills = <<>> THEN transferable_skills
    ELSE AddStrongSkills(AddStrongSkill(transferable_skills, Head(employee_skills)),
                         Tail(employee_skills))

(***************************************************************************)
(* identify_learning_priorities, lines 76-92.                              *)
(***************************************************************************)
\* AddHigh with the Medium loop's test len(priorities) < 5 added
AddHigh_Capped(prio, gap) ==
    IF gap.priority = "High" /\ Len(prio) < TopPriorities
    THEN prio \o Take(gap.skills, TopPerHighCategory)
    ELSE prio

\* lines 82-84: what one gap category adds in the High loop
AddHigh(prio, gap) ==
    IF gap.priority = "High"
    THEN prio \o Take(gap.skills, TopPerHighCategory)
    ELSE prio

\* lines 81-84
RECURSIVE HighPass(_, _)
HighPass(prio, gaps) ==
    IF gaps = <<>> THEN prio
    ELSE HighPass(AddHigh(prio, Head(gaps)), Tail(gaps))

\* AddMedium putting the skill at the front of the list
AddMedium_Prepends(prio, gap) ==
    IF gap.priority = "Medium" /\ Len(prio) < TopPriorities
    THEN <<gap.skills[1]>> \o prio
    ELSE prio

\* AddMedium taking every category that is not High, Low ones included
AddMedium_NotHigh(prio, gap) ==
    IF gap.priority # "High" /\ Len(prio) < TopPriorities
    THEN Append(prio, gap.skills[1])
    ELSE prio

\* AddMedium appending gap["category"] in place of gap["skills"][0]
AddMedium_Category(prio, gap) ==
    IF gap.priority = "Medium" /\ Len(prio) < TopPriorities
    THEN Append(prio, gap.category)
    ELSE prio

\* AddMedium without the test len(priorities) < 5 of line 89
AddMedium_NoCap(prio, gap) ==
    IF gap.priority = "Medium"
    THEN Append(prio, gap.skills[1])
    ELSE prio

\* lines 89-90: what one gap category adds in the Medium loop
AddMedium(prio, gap) ==
    IF gap.priority = "Medium" /\ Len(prio) < TopPriorities
    THEN Append(prio, gap.skills[1])
    ELSE prio

\* lines 88-90
RECURSIVE MediumLoop(_, _)
MediumLoop(prio, gaps) ==
    IF gaps = <<>> THEN prio
    ELSE MediumLoop(AddMedium(prio, Head(gaps)), Tail(gaps))

\* lines 87-90
MediumPass(prio, gaps) ==
    IF Len(prio) < TopPriorities THEN MediumLoop(prio, gaps) ELSE prio

\* line 90: gap["skills"][0] raises IndexError when the Medium loop reaches
\* a Medium category whose skills list is empty while fewer than 5 are chosen
RECURSIVE MediumLoopRaises(_, _)
MediumLoopRaises(prio, gaps) ==
    IF gaps = <<>> THEN FALSE
    ELSE IF /\ Head(gaps).priority = "Medium"
            /\ Len(prio) < TopPriorities
            /\ Head(gaps).skills = <<>>
         THEN TRUE
         ELSE MediumLoopRaises(AddMedium(prio, Head(gaps)), Tail(gaps))

\* lines 87-90: the Medium block is entered and raises
MediumPassRaises(prio, gaps) ==
    Len(prio) < TopPriorities /\ MediumLoopRaises(prio, gaps)

\* Truncate without the slice [:5] of line 92
Truncate_None(prio) == prio

\* line 92
Truncate(prio) == Take(prio, TopPriorities)

\* lines 76-92
identify_learning_priorities(gaps) ==
    Truncate(MediumPass(HighPass(<<>>, gaps), gaps))

\* lines 25-74
analyze_skills_gap(emp, req) ==
    LET employee_skills == ExtractEmployeeSkills(emp.skills)
        st == ProcessCategories(employee_skills, req.required_skills,
                                [transferable_skills |-> <<>>, skill_gaps |-> <<>>])
    IN [transferable_skills |-> AddStrongSkills(st.transferable_skills, employee_skills),
        skill_gaps |-> st.skill_gaps,
        learning_priorities |-> identify_learning_priorities(st.skill_gaps)]

\* line 73: the call of identify_learning_priorities raises, and the
\* exception leaves analyze_skills_gap
AnalysisRaises(emp, req) ==
    LET employee_skills == ExtractEmployeeSkills(emp.skills)
        st == ProcessCategories(employee_skills, req.required_skills,
                                [transferable_skills |-> <<>>, skill_gaps |-> <<>>])
    IN MediumPassRaises(HighPass(<<>>, st.skill_gaps), st.skill_gaps)

(***************************************************************************)
(* Inputs.                                                                 *)
(***************************************************************************)
SkillInputs == [name : EmpNames, proficiency : Proficiencies]

\* employee_data["skills"]: the records recs, the first cut of them in the
\* first category and the rest in the second
EmpCategories(recs, cut) ==
    <<[category |-> EmpCategoryNames[1], skills |-> SubSeq(recs, 1, cut)],
      [category |-> EmpCategoryNames[2], skills |-> SubSeq(recs, cut + 1, Len(recs))]>>

\* a required category's "priority" key, or "none" for a category without one
PriorityOptions == PriorityValues \cup {"none"}

\* one required category, with or without a "priority" key
ReqCategory(i, skills, p) ==
    IF p = "none"
    THEN [category |-> ReqCategoryNames[i], skills |-> skills]
    ELSE [category |-> ReqCategoryNames[i], skills |-> skills, priority |-> p]

\* required_skills: k categories with priorities ps; the names, the first cut
\* of them in the first category and the rest in the second
ReqCategories(k, names, cut, ps) ==
    [i \in 1..k |->
        ReqCategory(i, IF i = 1 THEN SubSeq(names, 1, cut)
                       ELSE SubSeq(names, cut + 1, Len(names)), ps[i])]

\* the cuts that spread n records over the two inventory categories: all in
\* the first, or half in each (the flattened list is the same for every cut)
EmpCuts(n) == {n \div 2, n}

\* the cuts that spread n names over k categories
Cuts(k, n) == IF k = 2 THEN 0..n ELSE IF k = 1 THEN {n} ELSE {m \in {0} : n = 0}

EmptyReport ==
    [transferable_skills |-> <<>>, skill_gaps |-> <<>>, learning_priorities |-> <<>>]

\* gap categories are numbered; the scenario of six categories is included
GapCategoryIds == 1..(IF MaxGapCategories > 6 THEN MaxGapCategories ELSE 6)

\* gap skill names "S<i>_<j>" and category names "C<i>", distinct by category
\* and position
GapSkillNames ==
    [i \in GapCategoryIds |->
        [j \in 1..MaxGapSkills |-> "S" \o ToString(i) \o "_" \o ToString(j)]]
GapCategoryNames == [i \in GapCategoryIds |-> "C" \o ToString(i)]

GapSkillName(i, j) == GapSkillNames[i][j]
GapCategoryName(i) == GapCategoryNames[i]

GapEntry(i, n, p) ==
    [category |-> GapCategoryName(i),
     skills |-> [j \in 1..n |-> GapSkillName(i, j)],
     priority |-> p]

\* a list of gap entries as analyze_skills_gap builds them (no empty skills
\* list), with ns[i] gap skills and priority ps[i] in entry i
GapList(ns, ps) ==
    [i \in 1..Len(ns) |-> GapEntry(i, ns[i], ps[i])]

\* section 8 of the spec: six High categories of three gap skills each
SixHighGaps == [i \in 1..6 |-> GapEntry(i, 3, "High")]

(***************************************************************************)
(* Specification of one analyze_skills_gap call.                           *)
(***************************************************************************)
RankIdle ==
    /\ skill_gaps = <<>>
    /\ after_pass1 = <<>>
    /\ after_pass2 = <<>>
    /\ priorities = <<>>
    /\ rpc = "idle"

\* the employee's inventory is on file; no analysis has been asked for yet
Init ==
    /\ \E n \in 0..MaxEmpSkills :
        \E recs \in [1..n -> SkillInputs], cut \in EmpCuts(n) :
            employee_data = [skills |-> EmpCategories(recs, cut)]
    /\ position_requirements = [required_skills |-> <<>>]
    /\ report = EmptyReport
    /\ pc = "call"
    /\ RankIdle
    /\ LaterIdle

\* one call, against the requirements of a position drawn from the bounded sets
AnalyzeSkillsGap ==
    /\ pc = "call"
    /\ \E k \in 0..Len(ReqCategoryNames), n \in 0..MaxReqSkills :
        \E names \in [1..n -> ReqNames], cut \in Cuts(k, n), ps \in [1..k -> PriorityOptions] :
            position_requirements' = [required_skills |-> ReqCategories(k, names, cut, ps)]
    /\ IF AnalysisRaises(employee_data, position_requirements')
       THEN report' = report /\ pc' = "raise"
       ELSE /\ report' = analyze_skills_gap(employee_data, position_requirements')
            /\ pc' = "return"
    /\ UNCHANGED employee_data
    /\ UNCHANGED rankVars
    /\ UNCHANGED laterVars

Next == AnalyzeSkillsGap

Spec == Init /\ [][Next]_vars

(***************************************************************************)
(* Specification of one identify_learning_priorities call.                 *)
(***************************************************************************)
AnalysisIdle ==
    /\ employee_data = [skills |-> <<>>]
    /\ position_requirements = [required_skills |-> <<>>]
    /\ report = EmptyReport
    /\ pc = "idle"

\* the numbers of gap skills of a category in the lists handed to
\* identify_learning_priorities: up to the 3 the High loop takes (line 84),
\* and the largest number
GapSizes == (1..TopPerHighCategory) \cup {MaxGapSkills}

InitRank ==
    /\ \/ \E k \in 0..MaxGapCategories :
            \E ns \in [1..k -> GapSizes], ps \in [1..k -> PriorityValues] :
                skill_gaps = GapList(ns, ps)
       \/ skill_gaps = SixHighGaps
    /\ after_pass1 = <<>>
    /\ after_pass2 = <<>>
    /\ priorities = <<>>
    /\ rpc = "call"
    /\ AnalysisIdle
    /\ LaterIdle

IdentifyLearningPriorities ==
    /\ rpc = "call"
    /\ after_pass1' = HighPass(<<>>, skill_gaps)
    /\ after_pass2' = MediumPass(HighPass(<<>>, skill_gaps), skill_gaps)
    /\ priorities' = identify_learning_priorities(skill_gaps)
    /\ rpc' = "return"
    /\ UNCHANGED skill_gaps
    /\ UNCHANGED analysisVars
    /\ UNCHANGED laterVars

NextRank == IdentifyLearningPriorities

SpecRank == InitRank /\ [][NextRank]_vars

(***************************************************************************)
(* Properties of analyze_skills_gap, checked under Spec.                   *)
(***************************************************************************)
Returned == pc = "return"

\* the employee's skill records in category-then-skill order
EmpRecords == employee_data.skills[1].skills \o employee_data.skills[2].skills

Required == position_requirements.required_skills

Transferable == Range(report.transferable_skills)

\* equal up to letter case
SameSkill(a, b) == lower(a) = lower(b)

\* record e is a case-insensitive match of the required name s
Matches(e, s) == SameSkill(EmpRecords[e].name, s)

\* record e is the first case-insensitive match of s in the inventory
IsFirstMatch(e, s) == Matches(e, s) /\ \A d \in 1..(e - 1) : ~Matches(d, s)

HasMatch(s) == \E e \in 1..Len(EmpRecords) : Matches(e, s)

\* the gap skills the report lists under the category named c
GapSkillsOf(c) ==
    UNION {Range(report.skill_gaps[i].skills) :
              i \in {k \in 1..Len(report.skill_gaps) : report.skill_gaps[k].category = c}}

\* the <<category index, required skill>> pairs of the requirements
RequiredPairs ==
    UNION {{<<c, s>> : s \in Range(Required[c].skills)} : c \in 1..Len(Required)}

\* C1: transferable_skills never holds a skill name more than once, also when
\* a required skill is listed in several categories or several times in one.
C1_TransferableHasNoDuplicates ==
    Returned =>
        \A i, j \in 1..Len(report.transferable_skills) :
            i # j => report.transferable_skills[i] # report.transferable_skills[j]

\* C2 as stated: a required skill that matches ANY employee record of
\* proficiency >= 3 has that record's name in transferable_skills and is not
\* in its category's gap list.
C2_AnyMatchIsTransferable ==
    Returned =>
        \A p \in RequiredPairs : \A e \in 1..Len(EmpRecords) :
            Matches(e, p[2]) /\ EmpRecords[e].proficiency >= 3
            => /\ EmpRecords[e].name \in Transferable
               /\ p[2] \notin GapSkillsOf(Required[p[1]].category)

\* C2 amended: a required skill whose FIRST matching employee record has
\* proficiency >= 3 has that record's name in transferable_skills and is not
\* in its category's gap list, whatever the later records of that name hold.
C2_FirstMatchIsTransferable ==
    Returned =>
        \A p \in RequiredPairs : \A e \in 1..Len(EmpRecords) :
            IsFirstMatch(e, p[2]) /\ EmpRecords[e].proficiency >= 3
            => /\ EmpRecords[e].name \in Transferable
               /\ p[2] \notin GapSkillsOf(Required[p[1]].category)

\* a required skill whose first match is at proficiency >= 3 while a later
\* record of the same name is below 3
C2_Witness ==
    /\ Returned
    /\ \E p \in RequiredPairs : \E e, d \in 1..Len(EmpRecords) :
        /\ IsFirstMatch(e, p[2]) /\ EmpRecords[e].proficiency >= 3
        /\ d > e /\ Matches(d, p[2]) /\ EmpRecords[d].proficiency < 3
        /\ EmpRecords[e].name \in Transferable

\* C3 as stated: in the returned report (second pass included) a matched
\* required skill is never both in transferable_skills and in the gap list of
\* its category.
C3_NeverTransferableAndGap ==
    Returned =>
        \A p \in RequiredPairs :
            HasMatch(p[2])
            => ~(/\ p[2] \in Transferable
                 /\ p[2] \in GapSkillsOf(Required[p[1]].category))

\* C3 amended: a matched required skill is both in transferable_skills and in
\* the gap list of its category only when its first matching record is below
\* proficiency 3 and a later inventory record carrying exactly that name has
\* proficiency >= 4, which the second pass appends.
C3_BothOnlyByLaterStrongRecord ==
    Returned =>
        \A p \in RequiredPairs :
            /\ HasMatch(p[2])
            /\ p[2] \in Transferable
            /\ p[2] \in GapSkillsOf(Required[p[1]].category)
            => \E e, d \in 1..Len(EmpRecords) :
                /\ IsFirstMatch(e, p[2]) /\ EmpRecords[e].proficiency < 3
                /\ d > e /\ EmpRecords[d].name = p[2] /\ EmpRecords[d].proficiency >= 4

\* a matched required skill is a gap, and the second pass has appended a
\* strong skill that no category requires
C3_Witness ==
    /\ Returned
    /\ \E p \in RequiredPairs :
        /\ HasMatch(p[2])
        /\ p[2] \in GapSkillsOf(Required[p[1]].category)
        /\ p[2] \notin Transferable
    /\ \E e \in 1..Len(EmpRecords) :
        /\ EmpRecords[e].proficiency >= 4
        /\ EmpRecords[e].name \in Transferable
        /\ \A p \in RequiredPairs : ~Matches(e, p[2])

\* C4: every name in learning_priorities is a gap skill of some entry of
\* skill_gaps.
C4_PrioritiesAreGapSkills ==
    Returned =>
        \A n \in Range(report.learning_priorities) :
            \E i \in 1..Len(report.skill_gaps) : n \in Range(report.skill_gaps[i].skills)

\* priorities were taken from a High and from a Medium category
C4_Witness ==
    /\ Returned
    /\ Len(report.learning_priorities) >= 2
    /\ \E i, j \in 1..Len(report.skill_gaps) :
        /\ report.skill_gaps[i].priority = "High"
        /\ report.skill_gaps[j].priority = "Medium"

\* C6: a required skill with no case-insensitive match anywhere in the
\* inventory is in the gap list of its category.
C6_AbsentSkillIsGap ==
    Returned =>
        \A p \in RequiredPairs :
            ~HasMatch(p[2]) => p[2] \in GapSkillsOf(Required[p[1]].category)

\* an absent required skill, while the employee holds another skill at
\* proficiency >= 4
C6_Witness ==
    /\ Returned
    /\ \E p \in RequiredPairs :
        ~HasMatch(p[2]) /\ p[2] \in GapSkillsOf(Required[p[1]].category)
    /\ \E e \in 1..Len(EmpRecords) : EmpRecords[e].proficiency >= 4

\* the required skill s is unmet, or its match is below proficiency 3
IsGap(s) ==
    \A e \in 1..Len(EmpRecords) : IsFirstMatch(e, s) => EmpRecords[e].proficiency < 3

HasEntry(c) ==
    \E i \in 1..Len(report.skill_gaps) : report.skill_gaps[i].category = Required[c].category

\* C7: a required category has an entry in skill_gaps exactly when one of its
\* required skills is unmet or matched below proficiency 3, and no entry has
\* an empty skills list.
C7_EntryIffSomeGap ==
    Returned =>
        /\ \A c \in 1..Len(Required) :
            HasEntry(c) <=> \E s \in Range(Required[c].skills) : IsGap(s)
        /\ \A i \in 1..Len(report.skill_gaps) : report.skill_gaps[i].skills # <<>>

\* one category with required skills and no gap is left out, another has an
\* entry
C7_Witness ==
    /\ Returned
    /\ \E c, d \in 1..Len(Required) :
        /\ Required[c].skills # <<>> /\ ~HasEntry(c)
        /\ HasEntry(d)

MatchesOf(s) == {e \in 1..Len(EmpRecords) : Matches(e, s)}

\* C12: when several employee records match a required skill name, the
\* skill is a gap of its category exactly when the FIRST matching record (in
\* category-then-skill order) is below proficiency 3, and that record's name
\* is transferable when it is at 3 or above; the other matching records,
\* the one of highest proficiency included, do not decide it.
C12_FirstMatchDecides ==
    Returned =>
        \A p \in RequiredPairs : \A e \in MatchesOf(p[2]) :
            Cardinality(MatchesOf(p[2])) >= 2 /\ IsFirstMatch(e, p[2])
            => /\ p[2] \in GapSkillsOf(Required[p[1]].category)
                    <=> EmpRecords[e].proficiency < 3
               /\ EmpRecords[e].proficiency >= 3
                    => EmpRecords[e].name \in Transferable

\* two matching records in different inventory categories, the first below
\* 3 and the second exactly 3: the required skill is a gap and no name of it
\* is transferable, although the highest-proficiency match reaches 3
C12_Witness ==
    /\ Returned
    /\ Len(employee_data.skills[1].skills) = 1
    /\ Len(employee_data.skills[2].skills) = 1
    /\ \E p \in RequiredPairs :
        /\ MatchesOf(p[2]) = {1, 2}
        /\ EmpRecords[1].proficiency = 2
        /\ EmpRecords[2].proficiency = 3
        /\ p[2] \in GapSkillsOf(Required[p[1]].category)
        /\ report.transferable_skills = <<>>

\* C15: analyze_skills_gap never ends with an exception; with an empty
\* inventory and empty requirements the three collections of the report are
\* empty; and every gap entry of a report, the Medium ones pass 2 reads the
\* first skill of included, has a non-empty skills list.
C15_NoErrorOnWellFormedInput ==
    /\ pc # "raise"
    /\ Returned /\ EmpRecords = <<>> /\ Required = <<>> => report = EmptyReport
    /\ Returned =>
        \A i \in 1..Len(report.skill_gaps) : report.skill_gaps[i].skills # <<>>

\* an empty inventory and a category without a "priority" key: pass 2 read
\* the first gap skill of the category, which counts as Medium
C15_Witness ==
    /\ Returned
    /\ EmpRecords = <<>>
    /\ Len(report.skill_gaps) = 1
    /\ report.skill_gaps[1].priority = "Medium"
    /\ "priority" \notin DOMAIN Required[1]
    /\ report.learning_priorities = <<report.skill_gaps[1].skills[1]>>

\* the gap entries of the report, by position
GapEntries == 1..Len(report.skill_gaps)

\* the required category gap entry e was built from (category names are
\* distinct in the requirements)
SourceOf(e) ==
    Required[CHOOSE c \in 1..Len(Required) :
                Required[c].category = report.skill_gaps[e].category]

\* gap entry e contributes the skill name s to the ranking as a High entry
\* (one of its first 3 skills) or as a Medium entry (its first skill)
Contributes(e, s) ==
    LET gap == report.skill_gaps[e] IN
    \/ gap.priority = "High" /\ s \in Range(Take(gap.skills, 3))
    \/ gap.priority = "Medium" /\ s = gap.skills[1]

\* C23: the gap entry of a required category without a "priority" key has
\* priority "Medium"; the ranking takes its first gap skill whenever the
\* result has fewer than 5 entries, and a further gap skill of it is in the
\* result only when another entry contributes the same name.
C23_MissingPriorityIsMedium ==
    Returned =>
        \A e \in GapEntries :
            "priority" \notin DOMAIN SourceOf(e) =>
                /\ report.skill_gaps[e].priority = "Medium"
                /\ Len(report.learning_priorities) < 5 =>
                    report.skill_gaps[e].skills[1] \in Range(report.learning_priorities)
                /\ \A s \in Range(report.learning_priorities) :
                    s \in Range(report.skill_gaps[e].skills)
                    => \E d \in GapEntries : Contributes(d, s)

\* a category without a "priority" key and two different gap skills: only the
\* first of them is a learning priority
C23_Witness ==
    /\ Returned
    /\ Len(report.skill_gaps) = 1
    /\ "priority" \notin DOMAIN SourceOf(1)
    /\ Len(report.skill_gaps[1].skills) = 2
    /\ report.skill_gaps[1].skills[1] # report.skill_gaps[1].skills[2]
    /\ report.learning_priorities = <<report.skill_gaps[1].skills[1]>>

\* the position in the requirements of the category gap entry e came from
SourceIndex(e) ==
    CHOOSE c \in 1..Len(Required) :
        Required[c].category = report.skill_gaps[e].category

\* C24: the gap entries are in the input order of their required categories,
\* and the skills of an entry are the category's required skills that are
\* gaps, in the category's input order, repeated as often as required.
C24_OrderIsPreserved ==
    Returned =>
        /\ \A d, e \in GapEntries : d < e => SourceIndex(d) < SourceIndex(e)
        /\ \A e \in GapEntries :
            report.skill_gaps[e].skills =
                SelectSeq(SourceOf(e).skills,
                          LAMBDA s : s \in Range(report.skill_gaps[e].skills))

\* a category requires SQL before Excel and both are gaps: the entry lists
\* them in that order
C24_Witness ==
    /\ Returned
    /\ Len(report.skill_gaps) = 1
    /\ SourceOf(1).skills = <<"SQL", "Excel">>
    /\ report.skill_gaps[1].skills = <<"SQL", "Excel">>

\* C25: a transferable skill is always spelled as an employee record spells
\* it and a gap skill as the requirements spell it; when the first match of a
\* required skill differs from it in letter case, the record's spelling is
\* in transferable_skills if the match is at 3 or above, and otherwise the
\* required spelling, not the record's, is in the category's gap list.
C25_SpellingOfEachSide ==
    Returned =>
        /\ \A s \in Transferable : \E e \in 1..Len(EmpRecords) : EmpRecords[e].name = s
        /\ \A e \in GapEntries :
            Range(report.skill_gaps[e].skills) \subseteq Range(SourceOf(e).skills)
        /\ \A p \in RequiredPairs : \A e \in 1..Len(EmpRecords) :
            IsFirstMatch(e, p[2]) /\ EmpRecords[e].name # p[2] =>
                IF EmpRecords[e].proficiency >= 3
                THEN EmpRecords[e].name \in Transferable
                ELSE /\ p[2] \in GapSkillsOf(Required[p[1]].category)
                     /\ EmpRecords[e].name \notin GapSkillsOf(Required[p[1]].category)

\* SQL is required and matched by the record sql at 3: the report lists sql
\* as transferable and SQL nowhere
C25_Witness ==
    /\ Returned
    /\ \E p \in RequiredPairs : p[2] = "SQL"
    /\ Len(EmpRecords) = 1
    /\ EmpRecords[1] = [name |-> "sql", proficiency |-> 3]
    /\ report.transferable_skills = <<"sql">>
    /\ "SQL" \notin Transferable
    /\ \A e \in GapEntries : "SQL" \notin Range(report.skill_gaps[e].skills)

(***************************************************************************)
(* Properties of identify_learning_priorities, checked under SpecRank.     *)
(***************************************************************************)
Ranked == rpc = "return"

IsHigh(i) == skill_gaps[i].priority = "High"
IsMedium(i) == skill_gaps[i].priority = "Medium"

\* the positions <<i, j>> of the gap skills pass 1 takes: the first three of
\* each High category
HighPicks ==
    {p \in (1..Len(skill_gaps)) \X (1..3) :
        IsHigh(p[1]) /\ p[2] <= Len(skill_gaps[p[1]].skills)}

\* how many picks come before pick p, in category-then-skill order
PicksBefore(p) ==
    Cardinality({q \in HighPicks : q[1] < p[1] \/ (q[1] = p[1] /\ q[2] < p[2])})

MediumCategories == {i \in 1..Len(skill_gaps) : IsMedium(i)}

\* how many Medium categories come before category i
MediumsBefore(i) == Cardinality({h \in MediumCategories : h < i})

Min(a, b) == IF a < b THEN a ELSE b

\* s is the first n entries of t
IsPrefix(s, t, n) ==
    /\ Len(s) = n
    /\ n <= Len(t)
    /\ \A i \in 1..n : s[i] = t[i]

\* C5: the result has at most 5 entries and is the first 5 (or fewer) entries
\* of the list pass 1 followed by pass 2 built, however many High categories
\* pass 1 collected from.
C5_FirstFiveOfBothPasses ==
    Ranked =>
        /\ Len(priorities) <= 5
        /\ IsPrefix(priorities, after_pass2, Min(5, Len(after_pass2)))

\* two or more High categories gave pass 1 more than 5 entries
C5_Witness ==
    /\ Ranked
    /\ Cardinality({i \in 1..Len(skill_gaps) : IsHigh(i)}) >= 2
    /\ Len(after_pass2) > 5
    /\ Len(priorities) = 5

\* C9: pass 1 appends, for each High category in skill_gaps order, its first
\* 3 gap skills (or fewer) in the category's order, without a cap on the
\* total; six High categories of 3 skills give the 3 skills of the first
\* followed by the first 2 of the second.
C9_PassOneTakesThreePerHigh ==
    Ranked =>
        /\ Len(after_pass1) = Cardinality(HighPicks)
        /\ \A p \in HighPicks :
            after_pass1[PicksBefore(p) + 1] = skill_gaps[p[1]].skills[p[2]]
        /\ skill_gaps = SixHighGaps =>
            priorities = <<"S1_1", "S1_2", "S1_3", "S2_1", "S2_2">>

\* the six-category scenario: pass 1 alone yields 18 entries
C9_Witness ==
    /\ Ranked
    /\ skill_gaps = SixHighGaps
    /\ Len(after_pass1) = 18
    /\ Len(priorities) = 5

\* C10: pass 2 changes nothing when pass 1 gave 5 or more entries; otherwise
\* it appends, in skill_gaps order, the first gap skill of each Medium
\* category and stops once the list holds 5 entries.
C10_PassTwoFillsUpToFive ==
    Ranked =>
        /\ Len(after_pass1) >= 5 => after_pass2 = after_pass1
        /\ Len(after_pass1) < 5 =>
            /\ IsPrefix(after_pass1, after_pass2, Len(after_pass1))
            /\ Len(after_pass2) =
                  Min(5, Len(after_pass1) + Cardinality(MediumCategories))
            /\ \A i \in MediumCategories :
                Len(after_pass1) + MediumsBefore(i) < 5 =>
                    after_pass2[Len(after_pass1) + MediumsBefore(i) + 1]
                        = skill_gaps[i].skills[1]

\* pass 1 gave fewer than 5 entries and there are more Medium categories than
\* free places, so the last Medium category adds nothing
C10_Witness ==
    /\ Ranked
    /\ Len(after_pass1) < 5
    /\ Len(after_pass1) + Cardinality(MediumCategories) > 5
    /\ Len(after_pass2) = 5

IsLow(i) == skill_gaps[i].priority = "Low"

\* C11: every entry of the result is a gap skill of a High or Medium
\* category and no gap skill of a Low category is in it; when every category
\* is Low the result is empty although skill_gaps is not.
C11_LowNeverContributes ==
    Ranked =>
        /\ \A k \in 1..Len(priorities) :
            \E i \in 1..Len(skill_gaps) :
                /\ IsHigh(i) \/ IsMedium(i)
                /\ priorities[k] \in Range(skill_gaps[i].skills)
        /\ \A i \in 1..Len(skill_gaps) :
            IsLow(i) => Range(skill_gaps[i].skills) \cap Range(priorities) = {}
        /\ (\A i \in 1..Len(skill_gaps) : IsLow(i)) => priorities = <<>>

\* two or more gap categories, all of them Low, and an empty result
C11_Witness ==
    /\ Ranked
    /\ Len(skill_gaps) >= 2
    /\ \A i \in 1..Len(skill_gaps) : IsLow(i)
    /\ priorities = <<>>

\* the place in skill_gaps of the category the k-th entry of the result was
\* taken from (a gap skill belongs to one category of the list)
CategoryOf(k) ==
    CHOOSE i \in 1..Len(skill_gaps) : priorities[k] \in Range(skill_gaps[i].skills)

\* C27: in the result every entry taken from a High category comes before
\* every entry taken from a Medium category, and two entries of the same kind
\* stand in the order of their categories in skill_gaps.
C27_HighBeforeMediumInOrder ==
    Ranked =>
        \A k \in 1..Len(priorities) : \A l \in (k + 1)..Len(priorities) :
            /\ ~(IsMedium(CategoryOf(k)) /\ IsHigh(CategoryOf(l)))
            /\ IsHigh(CategoryOf(k)) = IsHigh(CategoryOf(l)) =>
                CategoryOf(k) <= CategoryOf(l)

\* a Medium category stands before a High one in skill_gaps, and the result
\* has entries of two High and two Medium categories
C27_Witness ==
    /\ Ranked
    /\ \E i, j \in 1..Len(skill_gaps) : i < j /\ IsMedium(i) /\ IsHigh(j)
    /\ Cardinality({CategoryOf(k) : k \in {n \in 1..Len(priorities) : IsHigh(CategoryOf(n))}}) >= 2
    /\ Cardinality({CategoryOf(k) : k \in {n \in 1..Len(priorities) : IsMedium(CategoryOf(n))}}) >= 2

(***************************************************************************)
(* Two calls of analyze_skills_gap on the same inventory and requirements, *)
(* running concurrently (SpecCalls).  A call is three kinds of step: the   *)
(* creation of its locals (lines 28-39), one iteration of the loop over    *)
(* the required categories (lines 41-63), and the second pass with the     *)
(* return (lines 65-74).  Steps of the two calls interleave freely.        *)
(***************************************************************************)
\* most skill records in the inventory, and most required skill names, of
\* the concurrent calls
MaxCallSkills == 1

Callers == {1, 2}

\* every call's locals live in one frame that all calls share
FrameOf_Shared(t) == 1

\* lines 28-39: employee_skills, skill_gaps and transferable_skills are
\* locals; each call has a frame of its own
FrameOf(t) == t

\* the list starts with what the other call's list holds
FreshList_Leftover(t) == frames[3 - t].transferable_skills

\* line 39: transferable_skills = [] binds a new empty list in every call
FreshList(t) == <<>>

NoFrame == [employee_skills |-> <<>>, skill_gaps |-> <<>>, transferable_skills |-> <<>>]

InitCalls ==
    /\ \E n \in 0..MaxCallSkills :
        \E recs \in [1..n -> SkillInputs], cut \in EmpCuts(n) :
            employee_data = [skills |-> EmpCategories(recs, cut)]
    /\ \E k \in 0..Len(ReqCategoryNames), n \in 0..MaxCallSkills :
        \E names \in [1..n -> ReqNames], cut \in Cuts(k, n), ps \in [1..k -> PriorityOptions] :
            position_requirements = [required_skills |-> ReqCategories(k, names, cut, ps)]
    /\ report = EmptyReport
    /\ pc = "idle"
    /\ RankIdle
    /\ callers = [t \in Callers |-> [at |-> "call", i |-> 0, result |-> EmptyReport]]
    /\ frames = [t \in Callers |-> NoFrame]
    /\ overlapped = FALSE
    /\ BatchIdle
    /\ OutlineIdle
    /\ AgentsIdle

\* lines 28-39 of call t
BeginCall(t) ==
    /\ callers[t].at = "call"
    /\ frames' = [frames EXCEPT ![FrameOf(t)] =
                    [employee_skills |-> ExtractEmployeeSkills(employee_data.skills),
                     skill_gaps |-> <<>>,
                     transferable_skills |-> FreshList(t)]]
    /\ callers' = [callers EXCEPT ![t].at = "loop", ![t].i = 1]
    /\ overlapped' = (overlapped \/ \E u \in Callers \ {t} : callers[u].at = "loop")
    /\ UNCHANGED <<analysisVars, rankVars, batchVars, outlineVars, agentVars>>

\* lines 41-63 of call t: one required category
CategoryStep(t) ==
    /\ callers[t].at = "loop"
    /\ callers[t].i <= Len(position_requirements.required_skills)
    /\ LET f == frames[FrameOf(t)]
           st == ProcessCategory(f.employee_skills,
                                 position_requirements.required_skills[callers[t].i],
                                 [transferable_skills |-> f.transferable_skills,
                                  skill_gaps |-> f.skill_gaps])
       IN frames' = [frames EXCEPT ![FrameOf(t)] =
                        [employee_skills |-> f.employee_skills,
                         skill_gaps |-> st.skill_gaps,
                         transferable_skills |-> st.transferable_skills]]
    /\ callers' = [callers EXCEPT ![t].i = @ + 1]
    /\ UNCHANGED <<analysisVars, rankVars, overlapped, batchVars, outlineVars, agentVars>>

\* lines 65-74 of call t: the second pass, the ranking and the return
FinishCall(t) ==
    /\ callers[t].at = "loop"
    /\ callers[t].i > Len(position_requirements.required_skills)
    /\ LET f == frames[FrameOf(t)]
           ts == AddStrongSkills(f.transferable_skills, f.employee_skills)
       IN /\ frames' = [frames EXCEPT ![FrameOf(t)].transferable_skills = ts]
          /\ IF MediumPassRaises(HighPass(<<>>, f.skill_gaps), f.skill_gaps)
             THEN callers' = [callers EXCEPT ![t].at = "raise"]
             ELSE callers' = [callers EXCEPT
                    ![t].at = "return",
                    ![t].result =
                        [transferable_skills |-> ts,
                         skill_gaps |-> f.skill_gaps,
                         learning_priorities |-> identify_learning_priorities(f.skill_gaps)]]
    /\ UNCHANGED <<analysisVars, rankVars, overlapped, batchVars, outlineVars, agentVars>>

NextCalls ==
    \E t \in Callers : BeginCall(t) \/ CategoryStep(t) \/ FinishCall(t)

SpecCalls == InitCalls /\ [][NextCalls]_vars

BothReturned == \A t \in Callers : callers[t].at = "return"

C14_NoSideEffects ==
    /\ [][/\ employee_data' = employee_data
          /\ position_requirements' = position_requirements]_vars
    /\ [](\A t \in Callers :
            /\ callers[t].at # "raise"
            /\ callers[t].at = "return" =>
                callers[t].result = analyze_skills_gap(employee_data, position_requirements))

\* both calls returned after running at the same time, with something to
\* report
C14_Witness ==
    /\ BothReturned
    /\ overlapped
    /\ callers[1].result.transferable_skills # <<>>
    /\ callers[1].result.skill_gaps # <<>>

(***************************************************************************)
(* The module batch of the content generator's main, lines 338-398         *)
(* (SpecBatch).  main submits one process_module call per requested module *)
(* to a ThreadPoolExecutor, handles the futures as they complete, and      *)
(* prints a summary.  The worker threads run while main submits and        *)
(* collects.                                                               *)
(***************************************************************************)
\* most modules a batch is asked for
MaxModules == 6

\* line 376: ThreadPoolExecutor(max_workers=5)
MaxWorkers == 5

Modules == 1..Len(modules_to_generate)

\* the calls that hold a worker thread: the running ones and the ones whose
\* generator request never returns (lines 280-289 set no timeout)
Running == {m \in Modules : futures[m] \in {"running", "hung"}}
Finished == {m \in Modules : futures[m] \in {"ok", "none", "raised"}}

\* a worker takes the next queued call whatever the number of running ones
SlotFree_Always(running) == TRUE

\* line 376: the executor runs at most max_workers calls at a time
SlotFree(running) == Cardinality(running) < MaxWorkers

\* the futures are handled in the order of submission, each one awaited
as_completed_InOrder ==
    {m \in Finished \ yielded : \A k \in 1..(m - 1) : k \in yielded}

\* line 382: as_completed yields every future once, as soon as it is done
as_completed == Finished \ yielded

\* the exception of future.result() leaves the loop and ends main
AfterException_Propagates == "crashed"

\* lines 389-390: the handler prints the error; the loop goes on
AfterException == "collect"

InitBatch ==
    /\ \E n \in 0..MaxModules : modules_to_generate = [m \in 1..n |-> m]
    /\ futures = [m \in Modules |-> "new"]
    /\ yielded = {}
    /\ results = <<>>
    /\ saved = {}
    /\ bpc = "submit"
    /\ AnalysisIdle
    /\ RankIdle
    /\ CallsIdle
    /\ OutlineIdle
    /\ AgentsIdle

\* lines 377-380: executor.submit for the next module of the list
Submit ==
    /\ bpc = "submit"
    /\ \E m \in Modules :
        /\ futures[m] = "new"
        /\ \A k \in 1..(m - 1) : futures[k] # "new"
        /\ futures' = [futures EXCEPT ![m] = "queued"]
    /\ UNCHANGED <<modules_to_generate, yielded, results, saved, bpc>>
    /\ UNCHANGED <<analysisVars, rankVars, callVars, outlineVars, agentVars>>

\* lines 377-380: every module is submitted; main enters the as_completed loop
AllSubmitted ==
    /\ bpc = "submit"
    /\ \A m \in Modules : futures[m] # "new"
    /\ bpc' = "collect"
    /\ UNCHANGED <<modules_to_generate, futures, yielded, results, saved>>
    /\ UNCHANGED <<analysisVars, rankVars, callVars, outlineVars, agentVars>>

\* a worker thread takes the oldest queued call (line 376) and enters
\* process_module
StartModule ==
    /\ SlotFree(Running)
    /\ \E m \in Modules :
        /\ futures[m] = "queued"
        /\ \A k \in 1..(m - 1) : futures[k] # "queued"
        /\ futures' = [futures EXCEPT ![m] = "running"]
    /\ UNCHANGED <<modules_to_generate, yielded, results, saved, bpc>>
    /\ UNCHANGED <<analysisVars, rankVars, callVars, outlineVars, agentVars>>

\* lines 303-323 and 278-298: the generator answered; process_module returns
\* the module's content
ModuleSucceeds(m) ==
    /\ futures[m] = "running"
    /\ futures' = [futures EXCEPT ![m] = "ok"]
    /\ UNCHANGED <<modules_to_generate, yielded, results, saved, bpc>>
    /\ UNCHANGED <<analysisVars, rankVars, callVars, outlineVars, agentVars>>

\* lines 299-301: the generator call raised; generate_module_content catches
\* it and process_module returns None
ModuleReturnsNone(m) ==
    /\ futures[m] = "running"
    /\ futures' = [futures EXCEPT ![m] = "none"]
    /\ UNCHANGED <<modules_to_generate, yielded, results, saved, bpc>>
    /\ UNCHANGED <<analysisVars, rankVars, callVars, outlineVars, agentVars>>

\* lines 313-317: process_module raises outside the try of line 278 (a
\* module or week of the outline lacks a key it reads)
ModuleRaises(m) ==
    /\ futures[m] = "running"
    /\ futures' = [futures EXCEPT ![m] = "raised"]
    /\ UNCHANGED <<modules_to_generate, yielded, results, saved, bpc>>
    /\ UNCHANGED <<analysisVars, rankVars, callVars, outlineVars, agentVars>>

\* lines 280-289: the request of the generator never returns (the client is
\* called without a timeout); the call keeps its worker thread for good
ModuleHangs(m) ==
    /\ futures[m] = "running"
    /\ futures' = [futures EXCEPT ![m] = "hung"]
    /\ UNCHANGED <<modules_to_generate, yielded, results, saved, bpc>>
    /\ UNCHANGED <<analysisVars, rankVars, callVars, outlineVars, agentVars>>

\* lines 382-390: as_completed yields a completed future and the loop body
\* handles it
Collect(m) ==
    /\ bpc = "collect"
    /\ m \in as_completed
    /\ yielded' = yielded \cup {m}
    /\ IF futures[m] = "ok"
       THEN /\ results' = Append(results, m)
            /\ saved' = saved \cup {m}
            /\ bpc' = bpc
       ELSE IF futures[m] = "none"
       THEN UNCHANGED <<results, saved, bpc>>
       ELSE /\ bpc' = AfterException
            /\ UNCHANGED <<results, saved>>
    /\ UNCHANGED <<modules_to_generate, futures>>
    /\ UNCHANGED <<analysisVars, rankVars, callVars, outlineVars, agentVars>>

\* line 382: every future has been yielded; the with block ends
LoopEnds ==
    /\ bpc = "collect"
    /\ yielded = Modules
    /\ bpc' = "summary"
    /\ UNCHANGED <<modules_to_generate, futures, yielded, results, saved>>
    /\ UNCHANGED <<analysisVars, rankVars, callVars, outlineVars, agentVars>>

\* lines 395-398: the summary; line 398 divides by len(results)
Summary ==
    /\ bpc = "summary"
    /\ bpc' = IF Len(results) = 0 THEN "crashed" ELSE "done"
    /\ UNCHANGED <<modules_to_generate, futures, yielded, results, saved>>
    /\ UNCHANGED <<analysisVars, rankVars, callVars, outlineVars, agentVars>>

NextBatch ==
    \/ Submit
    \/ AllSubmitted
    \/ StartModule
    \/ \E m \in Modules : ModuleSucceeds(m)
    \/ \E m \in Modules : ModuleReturnsNone(m)
    \/ \E m \in Modules : ModuleRaises(m)
    \/ \E m \in Modules : Collect(m)
    \/ LoopEnds
    \/ Summary

SpecBatch == InitBatch /\ [][NextBatch]_vars

\* a step of the main thread, lines 376-398
MainStep ==
    \/ Submit
    \/ AllSubmitted
    \/ \E m \in Modules : Collect(m)
    \/ LoopEnds
    \/ Summary

\* process_module of some call that does not hang comes to its end
Completes ==
    \E m \in Modules : ModuleSucceeds(m) \/ ModuleReturnsNone(m) \/ ModuleRaises(m)

\* the steps of a batch in which calls may hang
NextBatchFair ==
    \/ MainStep
    \/ StartModule
    \/ Completes
    \/ \E m \in Modules : ModuleHangs(m)

\* The batch under fair scheduling: the main thread keeps running while it has
\* a step to take (as_completed blocks it while no future is done), an idle
\* worker of the pool takes queued work, and the running calls that do not
\* hang come to their end.
SpecBatchFair ==
    /\ InitBatch
    /\ [][NextBatchFair]_vars
    /\ WF_vars(MainStep)
    /\ WF_vars(StartModule)
    /\ WF_vars(Completes)

\* the as_completed loop is over
LoopOver == bpc \in {"summary", "done", "crashed"}

Failed == {m \in Modules : futures[m] \in {"none", "raised"}}
Succeeded == {m \in Modules : futures[m] = "ok"}

\* C16: in a batch of two or more modules, whatever modules fail, all of them
\* included, main does not end with an uncaught exception: it never reaches
\* "crashed".
C16_BatchNeverCrashes ==
    Len(modules_to_generate) >= 2 => bpc # "crashed"

\* C17: a module whose generation failed (None or exception) is never in
\* results nor saved; once the loop is over every requested module has run
\* to its end (none was cancelled or left waiting) and every module whose
\* generation succeeded is in results, once, and saved.
C17_FailureIsContained ==
    /\ \A m \in Failed : m \notin Range(results) /\ m \notin saved
    /\ LoopOver =>
        /\ Finished = Modules
        /\ Range(results) = Succeeded
        /\ Len(results) = Cardinality(Succeeded)
        /\ saved = Succeeded

\* the loop is over; one module raised, one returned None, and the modules
\* submitted after them succeeded and are in results and saved
C17_Witness ==
    /\ LoopOver
    /\ Len(modules_to_generate) >= 4
    /\ futures[1] = "raised"
    /\ futures[2] = "none"
    /\ \A m \in Modules : m > 2 => m \in Range(results) /\ m \in saved

\* C18: at no time are more than 5 process_module calls running, however
\* many modules the batch was asked for.
C18_AtMostFiveInFlight ==
    Cardinality(Running) <= 5

\* six modules requested: five are running and the sixth waits in the queue
C18_Witness ==
    /\ Len(modules_to_generate) = 6
    /\ Cardinality(Running) = 5
    /\ \E m \in Modules : futures[m] = "queued"

(***************************************************************************)
(* The outline stage: generate_course_outline, lines 167-185, and the      *)
(* saving of its result by main, lines 202-215 (SpecOutline).              *)
(*                                                                         *)
(* The generator's answer is a text; the model keeps it as a sequence of   *)
(* segments separated by white space:                                      *)
(*   "fence_json"    the marker ```json                                    *)
(*   "fence"         the marker ``` not followed by json                   *)
(*   "outline_a",                                                          *)
(*   "outline_b"     two different well-formed JSON outlines               *)
(*   "empty_object"  the well-formed JSON text {}                          *)
(*   "malformed"     a block that is not well-formed JSON (cut short, or   *)
(*                   with comments)                                        *)
(*   "prose"         any other text without a fence marker                 *)
(***************************************************************************)
\* most segments in a response
MaxSegments == 4

Segments ==
    {"fence_json", "fence", "outline_a", "outline_b", "empty_object",
     "malformed", "prose"}

\* the segments json.loads accepts when they are the whole text
JsonValues == {"outline_a", "outline_b", "empty_object"}

\* `sep in text`
Contains(text, seps) == \E i \in 1..Len(text) : text[i] \in seps

\* text.split(sep)[0]: the text before the first separator, all of it if
\* there is none
SplitFirst(text, seps) ==
    IF Contains(text, seps)
    THEN SubSeq(text, 1, (CHOOSE i \in 1..Len(text) :
                            /\ text[i] \in seps
                            /\ \A j \in 1..(i - 1) : text[j] \notin seps) - 1)
    ELSE text

\* text.split(sep)[1], for a text that holds the separator: the text between
\* the first separator and the second, or the end
SplitSecond(text, seps) ==
    LET i == CHOOSE k \in 1..Len(text) :
                /\ text[k] \in seps
                /\ \A j \in 1..(k - 1) : text[j] \notin seps
    IN SplitFirst(SubSeq(text, i + 1, Len(text)), seps)

\* lines 171-175: the text handed to json.loads.  The marker ``` is also the
\* start of ```json, so a split at ``` cuts at both kinds of fence.
ExtractJsonText(result) ==
    IF Contains(result, {"fence_json"})
    THEN SplitFirst(SplitSecond(result, {"fence_json"}), {"fence", "fence_json"})
    ELSE IF Contains(result, {"fence"})
    THEN SplitFirst(SplitSecond(result, {"fence"}), {"fence"})
    ELSE result

\* the handler builds a default outline
OnDecodeError_Fallback == "outline_a"

\* lines 181-185: except json.JSONDecodeError: ... return None
OnDecodeError == "None"

\* lines 178-185: json.loads accepts a text that is one JSON value, white
\* space around it allowed, and nothing else
ParseJson(json_text) ==
    IF Len(json_text) = 1 /\ json_text[1] \in JsonValues
    THEN json_text[1]
    ELSE OnDecodeError

\* lines 167-185
generate_course_outline(result) == ParseJson(ExtractJsonText(result))

\* line 210: `if course_outline:`; None and the empty dict are false
Truthy(value) == value \notin {"None", "empty_object"}

InitOutline ==
    /\ \E n \in 0..MaxSegments : response \in [1..n -> Segments]
    /\ course_outline = "None"
    /\ outline_file = "absent"
    /\ opc = "call"
    /\ AnalysisIdle
    /\ RankIdle
    /\ CallsIdle
    /\ BatchIdle
    /\ AgentsIdle

\* line 204: main calls generate_course_outline, which parses the response
GenerateCourseOutline ==
    /\ opc = "call"
    /\ course_outline' = generate_course_outline(response)
    /\ opc' = "returned"
    /\ UNCHANGED <<response, outline_file>>
    /\ UNCHANGED <<analysisVars, rankVars, callVars, batchVars, agentVars>>

\* lines 210-213: main writes course_outline.json
SaveOutline ==
    /\ opc = "returned"
    /\ Truthy(course_outline)
    /\ outline_file' = course_outline
    /\ opc' = "done"
    /\ UNCHANGED <<response, course_outline>>
    /\ UNCHANGED <<analysisVars, rankVars, callVars, batchVars, agentVars>>

\* lines 214-215: main prints the failure and writes nothing
ReportOutlineFailure ==
    /\ opc = "returned"
    /\ ~Truthy(course_outline)
    /\ opc' = "done"
    /\ UNCHANGED <<response, course_outline, outline_file>>
    /\ UNCHANGED <<analysisVars, rankVars, callVars, batchVars, agentVars>>

NextOutline == GenerateCourseOutline \/ SaveOutline \/ ReportOutlineFailure

SpecOutline == InitOutline /\ [][NextOutline]_vars

OutlineReturned == opc \in {"returned", "done"}

\* the well-formed outlines in the response
OutlineBlocks == {i \in 1..Len(response) : response[i] \in {"outline_a", "outline_b"}}

\* C19: when the response holds no well-formed block, generate_course_outline
\* returns None; what it returns is always None or a block of the response,
\* never a made-up structure; and when it returned None main writes no
\* course_outline.json.
C19_NoOutlineNoArtifact ==
    /\ outline_file # "absent" => opc = "done"
    /\ OutlineReturned =>
        /\ ~Contains(response, JsonValues) => course_outline = "None"
        /\ course_outline = "None" \/ course_outline \in Range(response)
        /\ course_outline = "None" => outline_file = "absent"

\* main is done with a fenced block that is not well-formed and no other
\* block: None was returned and no file was written
C19_Witness ==
    /\ opc = "done"
    /\ response = <<"prose", "fence_json", "malformed", "fence">>
    /\ course_outline = "None"
    /\ outline_file = "absent"

\* C20: whenever the response holds a well-formed outline block, fenced or
\* not, with or without prose around it, generate_course_outline returns the
\* first such block.
C20_ReturnsFirstWellFormedBlock ==
    OutlineReturned /\ OutlineBlocks # {} =>
        course_outline = response[CHOOSE i \in OutlineBlocks :
                                     \A j \in OutlineBlocks : i <= j]

(***************************************************************************)
(* Part 3: the agents' artifact store, agents/db_utils.py (SpecStore).     *)
(*                                                                         *)
(* An artifact is a JSON file of DATA_DIR named after its kind and key.    *)
(* save_to_json is two steps: open(file_path, "w"), which creates the file *)
(* or empties it, and the end of the with block, which writes the text     *)
(* json.dump buffered from the start of the file.  Two writers call the    *)
(* save functions; their steps interleave.  load_from_json is one step.    *)
(* A text is a sequence of characters; the documents saved are a short and *)
(* a long one.                                                             *)
(***************************************************************************)
\* most save_to_json calls in a behaviour
MaxSaves == 3

Writers == {1, 2}

Kinds == {"learning_path", "course_content", "employee_profile"}
Keys == {"e1", "e2"}

\* lines 73, 108, 143 and 29: f"{kind}_{key}" with the extension .json
FileName(kind, key) == kind \o "_" \o key \o ".json"

FileNames == {FileName(kind, key) : kind \in Kinds, key \in Keys}

\* the JSON texts the writers save
Documents == {<<"s">>, <<"l", "l">>}

\* values that are not texts, written as one-element sequences so that they
\* compare with texts
Absent == <<"absent">>
None == <<"None">>
JSONDecodeError == <<"JSONDecodeError">>
FileNotFoundError == <<"FileNotFoundError">>

NoWriter == [at |-> "idle", file |-> "none", text |-> <<>>]
NoLoad == [file |-> "none", result |-> None]

\* open raises and the exception leaves load_from_json
OnFileNotFound_Raises == FileNotFoundError

\* lines 48-49: except FileNotFoundError: return None
OnFileNotFound == None

\* lines 44-49: the result of load_from_json on the store fs; json.load
\* raises JSONDecodeError on a text that is not one whole document
load_from_json(fs, name) ==
    IF fs[name] = Absent THEN OnFileNotFound
    ELSE IF fs[name] \in Documents THEN fs[name]
    ELSE JSONDecodeError

\* line 31 and the end of the with block: text written from the start of
\* the file over what the file holds
WriteAtStart(old, text) ==
    IF Len(old) > Len(text)
    THEN text \o SubSeq(old, Len(text) + 1, Len(old))
    ELSE text

InitStore ==
    /\ files = [name \in FileNames |-> Absent]
    /\ writers = [w \in Writers |-> NoWriter]
    /\ completed = [name \in FileNames |-> Absent]
    /\ touched = {}
    /\ loaded = NoLoad
    /\ saves = 0
    /\ AnalysisIdle
    /\ RankIdle
    /\ CallsIdle
    /\ BatchIdle
    /\ OutlineIdle
    /\ PersonalizationIdle
    /\ ProcessorIdle

\* lines 29-30: writer w enters save_to_json; open(file_path, "w")
OpenForWrite(w, name, text) ==
    /\ writers[w].at = "idle"
    /\ saves < MaxSaves
    /\ saves' = saves + 1
    /\ files' = [files EXCEPT ![name] = <<>>]
    /\ writers' = [writers EXCEPT ![w] = [at |-> "open", file |-> name, text |-> text]]
    /\ touched' = touched \cup {name}
    /\ UNCHANGED <<completed, loaded>>
    /\ UNCHANGED besidesStoreVars

\* lines 31-32: json.dump, the file is closed and save_to_json returns
CloseFile(w) ==
    /\ writers[w].at = "open"
    /\ files' = [files EXCEPT ![writers[w].file] = WriteAtStart(@, writers[w].text)]
    /\ completed' = [completed EXCEPT ![writers[w].file] = writers[w].text]
    /\ writers' = [writers EXCEPT ![w] = NoWriter]
    /\ UNCHANGED <<touched, loaded, saves>>
    /\ UNCHANGED besidesStoreVars

\* lines 44-49: one load_from_json call
Load(name) ==
    /\ loaded' = [file |-> name, result |-> load_from_json(files, name)]
    /\ UNCHANGED <<files, writers, completed, touched, saves>>
    /\ UNCHANGED besidesStoreVars

NextStore ==
    \/ \E w \in Writers, name \in FileNames, text \in Documents :
        OpenForWrite(w, name, text)
    \/ \E w \in Writers : CloseFile(w)
    \/ \E name \in FileNames : Load(name)

SpecStore == InitStore /\ [][NextStore]_vars

\* a save of the file is between its two steps
BeingSaved(name) ==
    \E w \in Writers : writers[w].at = "open" /\ writers[w].file = name

\* C21: in every state of the store, loading a file no save was ever started
\* on gives None, not an exception, and every load made of such a file
\* returned None.
C21_MissingArtifactIsNone ==
    /\ \A name \in FileNames \ touched : load_from_json(files, name) = None
    /\ loaded # NoLoad /\ loaded.file \notin touched => loaded.result = None

\* a load of a never-saved key returned None while another key holds a
\* document and a save of a third file is under way
C21_Witness ==
    /\ loaded.file \in FileNames \ touched
    /\ loaded.result = None
    /\ \E name \in FileNames : files[name] \in Documents
    /\ \E w \in Writers : writers[w].at = "open"

\* C22: whenever no save of a file is under way, loading it returns the text
\* of the save of that file that returned last, None if there was none.
C22_LastWriterWins ==
    \A name \in FileNames :
        ~BeingSaved(name) =>
            load_from_json(files, name) =
                IF completed[name] = Absent THEN None ELSE completed[name]

(***************************************************************************)
(* The batch under fair scheduling (SpecBatchFair).                        *)
(***************************************************************************)
Hung == {m \in Modules : futures[m] = "hung"}

\* the run of main is over: the summary was printed, or line 398 raised
BatchOver == bpc \in {"done", "crashed"}

\* the loop body handled module m as its outcome asks: once in results and
\* saved after a success, in neither after a failure
Resolved(m) ==
    /\ m \in yielded
    /\ Cardinality({i \in 1..Len(results) : results[i] = m})
         = (IF futures[m] = "ok" THEN 1 ELSE 0)
    /\ m \in saved <=> futures[m] = "ok"

\* C26: under fair scheduling every module whose call returned or raised is
\* eventually handled by the loop, and handled once (it stays handled, in
\* results and saved once after a success and not at all after a failure),
\* whatever calls hang; the loop is left only when every call has returned or
\* raised, and once every call has, the run of main comes to its end.  A call
\* that ended stays ended and a handled module stays handled, so "again and
\* again every ended call is handled" says that each one eventually is.
C26_ReturnedCallsAreResolved ==
    /\ []<>(Finished \subseteq yielded)
    /\ [](\A m \in yielded : Resolved(m))
    /\ [][Finished \subseteq Finished' /\ yielded \subseteq yielded']_vars
    /\ [](LoopOver => Finished = Modules)
    /\ []<>(Finished = Modules => BatchOver)

\* the first call hangs and every other call of a batch larger than the pool
\* has been handled, with a success and a failure among them
C26_Witness ==
    /\ Len(modules_to_generate) > MaxWorkers
    /\ Hung = {1}
    /\ yielded = Modules \ {1}
    /\ \A m \in yielded : Resolved(m)
    /\ Succeeded # {}
    /\ Failed # {}
    /\ bpc = "collect"


(***************************************************************************)
(* PersonalizationAgent, personalization_agent.py lines 104-186            *)
(* (SpecAgent): calls of create_employee_profile and create_learning_path, *)
(* one after the other, over the artifact store of db_utils.py.            *)
(***************************************************************************)
\* most calls of the agent in a run
MaxAgentCalls == 4

ArtifactKinds == {"employee_profile", "learning_path"}

\* "none" stands for employee_data without the key "employee_id"
NoEmployeeId == "none"
EmployeeData == {[employee_id |-> k] : k \in Keys \cup {NoEmployeeId}}

AgentFiles == {FileName(kind, k) : kind \in ArtifactKinds, k \in Keys}

\* what task.execute() returns: the text of a JSON object, the text of a JSON
\* value that is not an object (an array, a string, null), or text that is
\* not JSON
OutputForms == {"object", "array", "prose"}

\* a Python value the agent handles: its shape ("None", "empty" for {}, "dict"
\* for a parsed object, "raw" for the dict wrapped around text that did not
\* parse, "array" for a parsed value that is not a dict, "absent" for a file
\* that does not exist), the generator run it comes from, and its keys
\* "employee_id" and metadata["employee_id"]
Value(shape, run, id, meta) ==
    [shape |-> shape, run |-> run, employee_id |-> id, metadata |-> meta]

NoArtifact == Value("absent", 0, "none", "none")
NoneValue == Value("None", 0, "none", "none")
EmptyDict == Value("empty", 0, "none", "none")
GivenProfile == Value("dict", 0, "none", "none")

\* the values of the argument `profile` of create_learning_path
ProfileArguments == {NoneValue, EmptyDict, GivenProfile}

\* `if x:` and `if not x:` of lines 117, 157, 161 and 163
IsTruthy(x) == x.shape \notin {"None", "empty"}

\* db_utils.py lines 145-155 and 75-85, over load_from_json (lines 44-49)
load_artifact(store, kind, id) ==
    IF store[FileName(kind, id)] = NoArtifact THEN NoneValue
    ELSE store[FileName(kind, id)]

\* lines 127-135 and 173-181: json.loads of the generator's text, and the
\* dict built around the text when json.loads raises JSONDecodeError; the
\* dict built by create_learning_path has the key "employee_id" (line 180)
Parse(form, run, kind, id) ==
    IF form = "object" THEN Value("dict", run, "none", "none")
    ELSE IF form = "array" THEN Value("array", run, "none", "none")
    ELSE Value("raw", run, IF kind = "learning_path" THEN id ELSE "none", "none")

\* line 139 and db_utils.py lines 134-137, lines 63-64: the item assignments
\* raise TypeError on a value that is not a dict
ItemAssignmentRaises(value) == value.shape = "array"

\* line 139 and db_utils.py lines 122-143: the profile, with employee_id and
\* metadata set, becomes the content of the employee's profile file
save_employee_profile(store, id, profile) ==
    [store EXCEPT ![FileName("employee_profile", id)] =
        [profile EXCEPT !.employee_id = id, !.metadata = id]]

\* db_utils.py lines 51-73
save_learning_path(store, id, learning_path) ==
    [store EXCEPT ![FileName("learning_path", id)] =
        [learning_path EXCEPT !.metadata = id]]

NoAgentCall ==
    [op |-> "none", id |-> "none", found |-> NoneValue, ran |-> FALSE,
     wrote |-> FALSE, outcome |-> "none", result |-> NoneValue]

AgentCall(op, id, found, ran, wrote, outcome, result) ==
    [op |-> op, id |-> id, found |-> found, ran |-> ran,
     wrote |-> wrote, outcome |-> outcome, result |-> result]

InitAgent ==
    /\ artifacts = [name \in AgentFiles |-> NoArtifact]
    /\ executed = [a \in ArtifactKinds \X (Keys \cup {NoEmployeeId}) |-> 0]
    /\ agent_call = NoAgentCall
    /\ agent_calls = 0
    /\ AnalysisIdle
    /\ RankIdle
    /\ CallsIdle
    /\ BatchIdle
    /\ OutlineIdle
    /\ StoreIdle
    /\ ProcessorIdle

\* lines 104-142: one call of create_employee_profile(employee_data), here
\* data; form is the shape of the text the generator returns if the call
\* runs it
CreateEmployeeProfile(data, form) ==
    /\ agent_calls < MaxAgentCalls
    /\ agent_calls' = agent_calls + 1
    /\ LET id == data.employee_id
           existing_profile ==
               IF id # NoEmployeeId
               THEN load_artifact(artifacts, "employee_profile", id)
               ELSE NoneValue
           run == executed[<<"employee_profile", id>>] + 1
           profile == Parse(form, run, "employee_profile", id)
       IN IF id # NoEmployeeId /\ IsTruthy(existing_profile)
          THEN /\ agent_call' = AgentCall("create_employee_profile", id, existing_profile,
                                          FALSE, FALSE, "returned", existing_profile)
               /\ UNCHANGED <<artifacts, executed>>
          ELSE /\ executed' = [executed EXCEPT ![<<"employee_profile", id>>] = run]
               /\ IF id = NoEmployeeId
                  THEN /\ agent_call' = AgentCall("create_employee_profile", id, existing_profile,
                                                  TRUE, FALSE, "returned", profile)
                       /\ UNCHANGED artifacts
                  ELSE IF ItemAssignmentRaises(profile)
                  THEN /\ agent_call' = AgentCall("create_employee_profile", id, existing_profile,
                                                  TRUE, FALSE, "TypeError", NoneValue)
                       /\ UNCHANGED artifacts
                  ELSE /\ artifacts' = save_employee_profile(artifacts, id, profile)
                       /\ agent_call' =
                            AgentCall("create_employee_profile", id, existing_profile,
                                      TRUE, TRUE, "returned",
                                      [profile EXCEPT !.employee_id = id, !.metadata = id])
    /\ UNCHANGED <<pipelineVars, storeVars, processorVars>>

\* lines 144-186: one call of create_learning_path
CreateLearningPath(id, profile_argument, form) ==
    /\ agent_calls < MaxAgentCalls
    /\ agent_calls' = agent_calls + 1
    /\ LET existing_path == load_artifact(artifacts, "learning_path", id)
           profile ==
               IF IsTruthy(profile_argument) THEN profile_argument
               ELSE load_artifact(artifacts, "employee_profile", id)
           run == executed[<<"learning_path", id>>] + 1
           learning_path == Parse(form, run, "learning_path", id)
       IN IF IsTruthy(existing_path)
          THEN /\ agent_call' = AgentCall("create_learning_path", id, existing_path,
                                          FALSE, FALSE, "returned", existing_path)
               /\ UNCHANGED <<artifacts, executed>>
          ELSE IF ~IsTruthy(profile)
          THEN /\ agent_call' = AgentCall("create_learning_path", id, existing_path,
                                          FALSE, FALSE, "ValueError", NoneValue)
               /\ UNCHANGED <<artifacts, executed>>
          ELSE /\ executed' = [executed EXCEPT ![<<"learning_path", id>>] = run]
               /\ IF ItemAssignmentRaises(learning_path)
                  THEN /\ agent_call' = AgentCall("create_learning_path", id, existing_path,
                                                  TRUE, FALSE, "TypeError", NoneValue)
                       /\ UNCHANGED artifacts
                  ELSE /\ artifacts' = save_learning_path(artifacts, id, learning_path)
                       /\ agent_call' =
                            AgentCall("create_learning_path", id, existing_path,
                                      TRUE, TRUE, "returned",
                                      [learning_path EXCEPT !.metadata = id])
    /\ UNCHANGED <<pipelineVars, storeVars, processorVars>>

NextAgent ==
    \/ \E data \in EmployeeData, form \in OutputForms :
        CreateEmployeeProfile(data, form)
    \/ \E id \in Keys, profile_argument \in ProfileArguments, form \in OutputForms :
        CreateLearningPath(id, profile_argument, form)

SpecAgent == InitAgent /\ [][NextAgent]_vars

\* the artifact the last call was asked for was stored when the call began
FoundStored == agent_call.op # "none" /\ IsTruthy(agent_call.found)

\* a call that finds the artifact stored returns it, does not run the
\* generator and does not write
StoredArtifactIsReturned ==
    FoundStored =>
        /\ agent_call.outcome = "returned"
        /\ agent_call.result = agent_call.found
        /\ ~agent_call.ran
        /\ ~agent_call.wrote

\* C28: a call that finds the artifact stored returns it without running the
\* generator and without writing, and for every employee id and artifact
\* kind the generator has run at most once.
C28_IdempotentPerEmployee ==
    /\ StoredArtifactIsReturned
    /\ \A kind \in ArtifactKinds, id \in Keys : executed[<<kind, id>>] <= 1


(***************************************************************************)
(* employee_processor.py: main (lines 215-244) polls for pending tasks and *)
(* runs process_employee_profile (lines 130-213) on each one               *)
(* (SpecProcessor).                                                        *)
(***************************************************************************)
\* most tasks a poll returns
MaxTasks == 2

\* most polls of a run
MaxPolls == 2

\* a fetched task: whether it has the key 'id', and whether its 'data' has
\* the keys 'employee_id' and 'profile_id'
TaskForms ==
    {[has_id |-> TRUE, has_data |-> TRUE],
     [has_id |-> TRUE, has_data |-> FALSE],
     [has_id |-> FALSE, has_data |-> TRUE]}

TaskLists == UNION {[1..n -> TaskForms] : n \in 0..MaxTasks}

Event(kind, status, ok) == [kind |-> kind, status |-> status, ok |-> ok]

\* update_task_status(task_id, status) was called; ok tells whether the
\* PATCH went through (lines 121-124)
StatusWrite(status, ok) == Event("write", status, ok)

\* one of the steps 2 to 9 of process_employee_profile ran
ProcessingStep == Event("step", "none", TRUE)

\* process_employee_profile returned (lines 203 and 213)
TaskReturned == Event("return", "none", TRUE)

\* an exception left the for loop of main (lines 243-245)
ExceptionEscaped == Event("escape", "none", TRUE)

\* the exception of requests leaves update_task_status
AfterFailedStatusWrite_Raises == "raise"

\* lines 126-128: update_task_status prints the error and returns False; its
\* callers do not look at the result
AfterFailedStatusWrite == "go on"

\* the task the for loop of line 236 is at
CurrentTask == tasks[task_index]

Log(event) == [events EXCEPT ![task_index] = Append(@, event)]
LogTwo(e1, e2) == [events EXCEPT ![task_index] = Append(Append(@, e1), e2)]

InitProcessor ==
    /\ tasks = <<>>
    /\ task_index = 0
    /\ ppc = "poll"
    /\ events = <<>>
    /\ polls = 0
    /\ AnalysisIdle
    /\ RankIdle
    /\ CallsIdle
    /\ BatchIdle
    /\ OutlineIdle
    /\ StoreIdle
    /\ PersonalizationIdle

\* lines 226-234 (and 46-62): one poll; fetch_pending_tasks returns the
\* pending tasks, or [] after an error
FetchPendingTasks(fetched) ==
    /\ ppc \in {"poll", "sleep", "error"}
    /\ polls < MaxPolls
    /\ polls' = polls + 1
    /\ tasks' = fetched
    /\ events' = [i \in 1..Len(fetched) |-> <<>>]
    /\ IF fetched = <<>>
       THEN task_index' = 0 /\ ppc' = "sleep"
       ELSE task_index' = 1 /\ ppc' = "task"
    /\ UNCHANGED <<pipelineVars, storeVars, personalizationVars>>

\* lines 236-238 and 241: the for loop takes the next task and prints its
\* id, which raises KeyError for a task without 'id' (caught at line 243);
\* after the last task main sleeps
NextTask ==
    /\ ppc = "task"
    /\ IF task_index > Len(tasks)
       THEN ppc' = "sleep" /\ UNCHANGED events
       ELSE IF ~CurrentTask.has_id
       THEN ppc' = "error" /\ events' = Log(ExceptionEscaped)
       ELSE ppc' = "begin" /\ UNCHANGED events
    /\ UNCHANGED <<tasks, task_index, polls>>
    /\ UNCHANGED <<pipelineVars, storeVars, personalizationVars>>

\* lines 133-138: the keys of the task are read (KeyError when 'data' lacks
\* one) and the status in_progress is asked for
Begin(ok) ==
    /\ ppc = "begin"
    /\ IF ~CurrentTask.has_data
       THEN ppc' = "except" /\ UNCHANGED events
       ELSE /\ events' = Log(StatusWrite("in_progress", ok))
            /\ ppc' = IF ~ok /\ AfterFailedStatusWrite = "raise"
                      THEN "except" ELSE "started"
    /\ UNCHANGED <<tasks, task_index, polls>>
    /\ UNCHANGED <<pipelineVars, storeVars, personalizationVars>>

\* lines 141-185: steps 2 to 8 (fetch the employee, read the documents, run
\* the agent, build the result); raised tells whether one of them raised
Process(raised) ==
    /\ ppc = "started"
    /\ events' = Log(ProcessingStep)
    /\ ppc' = IF raised THEN "except" ELSE "processed"
    /\ UNCHANGED <<tasks, task_index, polls>>
    /\ UNCHANGED <<pipelineVars, storeVars, personalizationVars>>

\* line 187: the status completed is asked for
WriteCompleted(ok) ==
    /\ ppc = "processed"
    /\ events' = Log(StatusWrite("completed", ok))
    /\ ppc' = IF ~ok /\ AfterFailedStatusWrite = "raise"
              THEN "except" ELSE "completed"
    /\ UNCHANGED <<tasks, task_index, polls>>
    /\ UNCHANGED <<pipelineVars, storeVars, personalizationVars>>

\* lines 189-203: step 9, the PATCH of the employee record and
\* raise_for_status; process_employee_profile returns True if it went through
UpdateEmployeeRecord(raised) ==
    /\ ppc = "completed"
    /\ IF raised
       THEN /\ events' = Log(ProcessingStep)
            /\ ppc' = "except"
            /\ UNCHANGED task_index
       ELSE /\ events' = LogTwo(ProcessingStep, TaskReturned)
            /\ ppc' = "task"
            /\ task_index' = task_index + 1
    /\ UNCHANGED <<tasks, polls>>
    /\ UNCHANGED <<pipelineVars, storeVars, personalizationVars>>

\* lines 205-213: the except block asks for the status failed and returns
\* False
HandleException(ok) ==
    /\ ppc = "except"
    /\ IF ~ok /\ AfterFailedStatusWrite = "raise"
       THEN /\ events' = LogTwo(StatusWrite("failed", ok), ExceptionEscaped)
            /\ ppc' = "error"
            /\ UNCHANGED task_index
       ELSE /\ events' = LogTwo(StatusWrite("failed", ok), TaskReturned)
            /\ ppc' = "task"
            /\ task_index' = task_index + 1
    /\ UNCHANGED <<tasks, polls>>
    /\ UNCHANGED <<pipelineVars, storeVars, personalizationVars>>

NextProcessor ==
    \/ \E fetched \in TaskLists : FetchPendingTasks(fetched)
    \/ NextTask
    \/ \E ok \in BOOLEAN : Begin(ok)
    \/ \E raised \in BOOLEAN : Process(raised)
    \/ \E ok \in BOOLEAN : WriteCompleted(ok)
    \/ \E raised \in BOOLEAN : UpdateEmployeeRecord(raised)
    \/ \E ok \in BOOLEAN : HandleException(ok)

SpecProcessor == InitProcessor /\ [][NextProcessor]_vars

Fetched == 1..Len(tasks)

\* the statuses written for task i, in order (the writes that went through)
Written(i) ==
    SelectSeq(events[i], LAMBDA e : e.kind = "write" /\ e.ok)

TerminalStatuses == {"completed", "failed"}

\* C29: the statuses written for a task in one attempt are in_progress first,
\* if it is written, and at most one terminal status; no 'failed' is written
\* after 'completed'.
C29_OneTerminalStatus ==
    \A i \in Fetched :
        /\ \A k \in 1..Len(Written(i)) :
            Written(i)[k].status = "in_progress" => k = 1
        /\ Cardinality({k \in 1..Len(Written(i)) :
                            Written(i)[k].status \in TerminalStatuses}) <= 1
        /\ \A k \in 1..Len(Written(i)) : \A l \in (k + 1)..Len(Written(i)) :
            ~(Written(i)[k].status = "completed" /\ Written(i)[l].status = "failed")

\* the places in the events of task i where something of this kind happened
Places(i, kind) == {k \in 1..Len(events[i]) : events[i][k].kind = kind}

\* the places where status was asked to be written for task i
Requests(i, statuses) ==
    {k \in Places(i, "write") : events[i][k].status \in statuses}

\* C30: for a fetched task with an id, every processing step comes after the
\* request to write in_progress, process_employee_profile returns only after
\* a request to write completed or failed, and no exception reaches main; the
\* for loop is left early only at a task without id, so after a task with an
\* id the next task of the poll is taken, and when main sleeps after a poll of
\* tasks with ids process_employee_profile has returned for each of them.
C30_FailureStaysInTheTask ==
    /\ \A i \in Fetched : tasks[i].has_id =>
        /\ \A k \in Places(i, "step") :
            \E j \in Requests(i, {"in_progress"}) : j < k
        /\ \A k \in Places(i, "return") :
            \E j \in Requests(i, TerminalStatuses) : j < k
        /\ Places(i, "escape") = {}
    /\ ppc = "error" => ~CurrentTask.has_id
    /\ ppc = "sleep" /\ (\A i \in Fetched : tasks[i].has_id) =>
        \A i \in Fetched : Places(i, "return") # {}

\* a poll of two tasks with ids: a step of the first raised and its failed
\* write was lost, the second was processed to the end, and main sleeps
C30_Witness ==
    /\ ppc = "sleep"
    /\ Len(tasks) = 2
    /\ \A i \in Fetched : tasks[i].has_id /\ Places(i, "return") # {}
    /\ Places(1, "step") # {}
    /\ \E k \in Requests(1, {"failed"}) : ~events[1][k].ok
    /\ Requests(2, {"completed"}) # {}
    /\ Requests(2, {"failed"}) = {}

=============================================================================
